---- MODULE Spec2Model ----
(***************************************************************************)
(* Gateway transport layer of the trading platform server:                 *)
(*   server/src/matching/protocol.rs  wire codec (header, NewOrder,        *)
(*                                    CancelOrder, OrderAck, OrderReject,  *)
(*                                    Execution)                           *)
(*   server/src/matching/client.rs    MatchingConnection (send path, id    *)
(*                                    counter, socket mutex, receiver task *)
(*                                    with its frame reassembler) and      *)
(*                                    MatchingClient (connection pool)     *)
(*                                                                         *)
(* Bytes are integers 0..255, byte strings are sequences of bytes.         *)
(* Specifications:                                                         *)
(*   Spec       one MatchingConnection: concurrent callers, the receiver   *)
(*              task and a peer that acknowledges orders                   *)
(*   FairSpec   Spec with the scheduling fairness of the tokio runtime     *)
(*   SpecCodec  the pure encoders applied to inputs drawn in Init          *)
(*   SpecReasm  the receiver task fed an inbound stream in arbitrary       *)
(*              reads, and the consumer of its event queue                 *)
(*   SpecDecode the pure decoders applied to inputs drawn in Init          *)
(*   SpecPool   MatchingClient::new and the calls routed through the pool  *)
(*   SpecPoolLife  SpecPool with the receiver tasks of the connections     *)
(*              ending and their events arriving                           *)
(* Strings are ASCII: a byte is a character.                               *)
(***************************************************************************)
EXTENDS Integers, Sequences, FiniteSets, TLC

VARIABLES
    sequence,   \* MatchingConnection.sequence (u64 behind the RwLock)
    locked,     \* MatchingConnection.stream mutex: TRUE while a guard is alive
    pc,         \* per caller: position inside submit_order / cancel_order
    call,       \* per caller: the call in progress (arguments, id, encoded frame, bytes written)
    ncalls,     \* number of calls started so far (history)
    allocs,     \* ids handed out by next_sequence, in the order handed out (history)
    returned,   \* results returned to callers (history)
    wire,       \* outbound socket: the poll_write segments, in the order written
    rpc,        \* receiver task: position inside the spawned loop
    buf,        \* receiver task: the BytesMut accumulator
    inflight,   \* inbound socket: bytes sent by the peer and not yet read
    stream,     \* every byte the peer has sent so far (history)
    sent,       \* frames the peer has sent, in order (history)
    peerClosed, \* the peer has shut down its sending side
    queue,      \* the unbounded mpsc channel message_tx -> message_rx
    received,   \* events taken from message_rx by the consumer, in order (history)
    cIn,        \* codec: the message under encoding
    cOut,       \* codec: the bytes produced
    dKind,      \* codec: the decoder under test
    dIn,        \* codec: the bytes handed to the decoder
    dOut,       \* codec: what the decoder returned
    ppc,        \* MatchingClient::new: position
    pool_size,  \* MatchingClient::new: argument
    attempt,    \* MatchingClient::new: loop variable i
    attempts,   \* outcome of every connect attempt made, in order (history)
    connections,\* MatchingClient.connections (attempt index of each live connection)
    poolResult, \* result of MatchingClient::new
    conn_seq,   \* MatchingConnection.sequence of each live connection, by position
    receiver,   \* receiver task of each live connection: "running" or "terminated"
    pool_calls, \* number of submit_order / cancel_order calls made on the pool (history)
    routed,     \* the last call made on the pool: where it went, the state of that
                \* connection's receiver task, what the call returned (history)
    last_event, \* attempt index of the connection whose event the pool logged last
    pool_ids    \* ids the pool's submit_order returned Ok, with the call number and
                \* the connection that allocated each (history)

vars == <<sequence, locked, pc, call, ncalls, allocs, returned, wire, rpc, buf,
          inflight, stream, sent, peerClosed, queue, received, cIn, cOut,
          dKind, dIn, dOut,
          ppc, pool_size, attempt, attempts, connections, poolResult,
          conn_seq, receiver, pool_calls, routed, last_event, pool_ids>>

connVars  == <<sequence, locked, pc, call, ncalls, allocs, returned, wire>>
recvVars  == <<rpc, buf, inflight, stream, sent, peerClosed, queue, received>>
codecVars == <<cIn, cOut, dKind, dIn, dOut>>
poolVars  == <<ppc, pool_size, attempt, attempts, connections, poolResult,
               conn_seq, receiver, pool_calls, routed, last_event, pool_ids>>

----------------------------------------------------------------------------
(* Bounds of the model *)

NumCallers == 2      \* concurrent tasks calling into one connection
MaxCalls == 2        \* calls made on one connection in a run
WriteQuantum == 44   \* a poll_write takes a multiple of this many bytes, or all that is left
MaxFailures == 1     \* socket writes or flushes that fail in a run
MaxInFrames == 2     \* frames in an inbound stream
MaxStreamBytes == 96 \* bytes in an inbound stream
MaxPoolSize == 3     \* largest pool_size tried
MaxPoolCalls == 2    \* calls made on one pool in a run
ReadQuantum == 24    \* in SpecFrames a read returns a multiple of this many bytes, or all there is

Callers == 1..NumCallers

----------------------------------------------------------------------------
(* Byte-level helpers: bytes::BufMut::put_uN and bytes::Buf::get_uN are big-endian *)

RECURSIVE put_be(_, _)
put_be(v, w) == IF w = 0 THEN <<>> ELSE Append(put_be(v \div 256, w - 1), v % 256)

put_u8(v)  == put_be(v, 1)
put_u16(v) == put_be(v, 2)
put_u32(v) == put_be(v, 4)
put_u64(v) == put_be(v, 8)

\* Values of 2^31 and more are represented by 2^31 - 1; no buffer of the model is
\* that long, so every comparison of a decoded length with a buffer length is exact.
get_be(s) ==
    LET n == Len(s)
        byte(i) == IF i >= 1 THEN s[i] ELSE 0
    IN  IF (\E i \in 1..(n - 4) : s[i] # 0) \/ byte(n - 3) >= 128 THEN 2147483647
        ELSE byte(n - 3) * 16777216 + byte(n - 2) * 65536 + byte(n - 1) * 256 + byte(n)

\* the field of width w that starts at 1-based offset o of byte string s
Field(s, o, w) == SubSeq(s, o, o + w - 1)
Zeros(n) == [i \in 1..n |-> 0]
Drop(s, n) == SubSeq(s, n + 1, Len(s))
Take(s, n) == SubSeq(s, 1, n)
Min(a, b) == IF a < b THEN a ELSE b

\* str::trim_end_matches('\0')
RECURSIVE trim_end_nul(_)
trim_end_nul(s) == IF s # <<>> /\ s[Len(s)] = 0
                   THEN trim_end_nul(SubSeq(s, 1, Len(s) - 1)) ELSE s

----------------------------------------------------------------------------
(* protocol.rs: tags *)

PROTOCOL_VERSION == 1

MessageTypes == {"NewOrder", "CancelOrder", "ReplaceOrder", "OrderAck", "OrderReject",
                 "OrderCancelled", "OrderReplaced", "Execution", "Trade", "Quote",
                 "Heartbeat", "Logon", "Logout"}

\* `msg_type as u8`
MessageType_as_u8(t) ==
    CASE t = "NewOrder" -> 1
      [] t = "CancelOrder" -> 2
      [] t = "ReplaceOrder" -> 3
      [] t = "OrderAck" -> 16
      [] t = "OrderReject" -> 17
      [] t = "OrderCancelled" -> 18
      [] t = "OrderReplaced" -> 19
      [] t = "Execution" -> 32
      [] t = "Trade" -> 48
      [] t = "Quote" -> 49
      [] t = "Heartbeat" -> 240
      [] t = "Logon" -> 241
      [] t = "Logout" -> 242

\* MessageType::try_from(u8); "Err" stands for io::ErrorKind::InvalidData
MessageType_try_from(value) ==
    CASE value = 1 -> "NewOrder"
      [] value = 2 -> "CancelOrder"
      [] value = 3 -> "ReplaceOrder"
      [] value = 16 -> "OrderAck"
      [] value = 17 -> "OrderReject"
      [] value = 18 -> "OrderCancelled"
      [] value = 19 -> "OrderReplaced"
      [] value = 32 -> "Execution"
      [] value = 48 -> "Trade"
      [] value = 49 -> "Quote"
      [] value = 240 -> "Heartbeat"
      [] value = 241 -> "Logon"
      [] value = 242 -> "Logout"
      [] OTHER -> "Err"

Side_as_u8(s) == IF s = "Buy" THEN 1 ELSE 2
OrderType_as_u8(t) == IF t = "Limit" THEN 1 ELSE 2

----------------------------------------------------------------------------
(* protocol.rs: MessageHeader *)

\* mutant: the header carries a running sequence number
MessageHeader_new_mut(msg_type, length) ==
    [version |-> PROTOCOL_VERSION, msg_type |-> msg_type, reserved |-> 0,
     length |-> length, sequence |-> 1]

MessageHeader_new(msg_type, length) ==
    [version |-> PROTOCOL_VERSION, msg_type |-> msg_type, reserved |-> 0,
     length |-> length, sequence |-> 0]

\* mutant: reserved and length change places
MessageHeader_encode_mut(h) ==
    put_u8(h.version) \o put_u8(MessageType_as_u8(h.msg_type)) \o put_u32(h.length)
        \o put_u16(h.reserved) \o put_u64(h.sequence)

MessageHeader_encode(h) ==
    put_u8(h.version) \o put_u8(MessageType_as_u8(h.msg_type)) \o put_u16(h.reserved)
        \o put_u32(h.length) \o put_u64(h.sequence)

\* mutant: the length guard is off by one
MessageHeader_decode_mut(b) ==
    IF Len(b) <= 16 THEN [ok |-> FALSE, err |-> "UnexpectedEof"]
    ELSE LET msg_type == MessageType_try_from(b[2]) IN
         IF msg_type = "Err" THEN [ok |-> FALSE, err |-> "InvalidData"]
         ELSE [ok |-> TRUE,
               version |-> b[1],
               msg_type |-> msg_type,
               reserved |-> get_be(Field(b, 3, 2)),
               length |-> get_be(Field(b, 5, 4)),
               sequence |-> get_be(Field(b, 9, 8))]

\* Result: ok with the header, or err "UnexpectedEof" / "InvalidData"
MessageHeader_decode(b) ==
    IF Len(b) < 16 THEN [ok |-> FALSE, err |-> "UnexpectedEof"]
    ELSE LET msg_type == MessageType_try_from(b[2]) IN
         IF msg_type = "Err" THEN [ok |-> FALSE, err |-> "InvalidData"]
         ELSE [ok |-> TRUE,
               version |-> b[1],
               msg_type |-> msg_type,
               reserved |-> get_be(Field(b, 3, 2)),
               length |-> get_be(Field(b, 5, 4)),
               sequence |-> get_be(Field(b, 9, 8))]

----------------------------------------------------------------------------
(* protocol.rs: outbound messages *)

\* mutant: the symbol is written as it is, without the fixed field
symbol_bytes_var(symbol) == Take(symbol, Min(Len(symbol), 15))

\* mutant: the field is filled to its last byte, no room left for the NUL
symbol_bytes_full(symbol) ==
    LET symbol_len == Min(Len(symbol), 16)
    IN  Take(symbol, symbol_len) \o Zeros(16 - symbol_len)

\* the 16-byte NUL-padded symbol field written by both encoders
symbol_bytes(symbol) ==
    LET symbol_len == Min(Len(symbol), 15)
    IN  Take(symbol, symbol_len) \o Zeros(16 - symbol_len)

NewOrderLength == 88
CancelOrderLength == 56

NewOrderMessage_new(symbol, client_order_id, user_id, side, order_type, price, quantity, now) ==
    [header |-> MessageHeader_new("NewOrder", NewOrderLength),
     symbol |-> symbol, client_order_id |-> client_order_id, user_id |-> user_id,
     side |-> side, order_type |-> order_type, price |-> price, quantity |-> quantity,
     timestamp |-> now]

NewOrderMessage_encode(m) ==
    MessageHeader_encode(m.header)
        \o symbol_bytes(m.symbol)
        \o put_u64(m.client_order_id)
        \o put_u64(m.user_id)
        \o put_u8(Side_as_u8(m.side))
        \o put_u8(OrderType_as_u8(m.order_type))
        \o put_u16(0)
        \o put_u64(m.price)
        \o put_u64(m.quantity)
        \o put_u64(m.timestamp)

CancelOrderMessage_new(symbol, client_order_id, user_id, now) ==
    [header |-> MessageHeader_new("CancelOrder", CancelOrderLength),
     symbol |-> symbol, client_order_id |-> client_order_id, user_id |-> user_id,
     timestamp |-> now]

CancelOrderMessage_encode(m) ==
    MessageHeader_encode(m.header)
        \o symbol_bytes(m.symbol)
        \o put_u64(m.client_order_id)
        \o put_u64(m.user_id)
        \o put_u64(m.timestamp)

----------------------------------------------------------------------------
(* protocol.rs: inbound messages.  A decoder yields [ok |-> TRUE, msg |-> ..],  *)
(* [ok |-> FALSE, panic |-> FALSE] for its Err return, or                        *)
(* [ok |-> FALSE, panic |-> TRUE] when a bytes::Buf getter runs past the end.    *)

DecodeErr == [ok |-> FALSE, panic |-> FALSE]
DecodePanic == [ok |-> FALSE, panic |-> TRUE]

OrderAckMessage_decode(b) ==
    IF Len(b) < 32 THEN DecodeErr
    ELSE [ok |-> TRUE, panic |-> FALSE,
          msg |-> [kind |-> "OrderAck",
                   client_order_id |-> get_be(Field(b, 1, 8)),
                   exchange_order_id |-> get_be(Field(b, 9, 8)),
                   user_id |-> get_be(Field(b, 17, 8)),
                   timestamp |-> get_be(Field(b, 25, 8))]]

\* reads 8 + 8 + 1 + 7 + 64 + 8 = 96 bytes behind a guard of 88
OrderRejectMessage_decode(b) ==
    IF Len(b) < 88 THEN DecodeErr
    ELSE IF Len(b) < 96 THEN DecodePanic
    ELSE [ok |-> TRUE, panic |-> FALSE,
          msg |-> [kind |-> "OrderReject",
                   client_order_id |-> get_be(Field(b, 1, 8)),
                   user_id |-> get_be(Field(b, 9, 8)),
                   reason |-> b[17],
                   text |-> trim_end_nul(Field(b, 25, 64)),
                   timestamp |-> get_be(Field(b, 89, 8))]]

ExecutionMessage_decode(b) ==
    IF Len(b) < 88 THEN DecodeErr
    ELSE [ok |-> TRUE, panic |-> FALSE,
          msg |-> [kind |-> "Execution",
                   symbol |-> trim_end_nul(Field(b, 1, 16)),
                   client_order_id |-> get_be(Field(b, 17, 8)),
                   exchange_order_id |-> get_be(Field(b, 25, 8)),
                   execution_id |-> get_be(Field(b, 33, 8)),
                   user_id |-> get_be(Field(b, 41, 8)),
                   side |-> IF b[49] = 1 THEN "Buy" ELSE "Sell",
                   fill_price |-> get_be(Field(b, 57, 8)),
                   fill_quantity |-> get_be(Field(b, 65, 8)),
                   leaves_quantity |-> get_be(Field(b, 73, 8)),
                   timestamp |-> get_be(Field(b, 81, 8))]]

----------------------------------------------------------------------------
(* client.rs: the frame reassembler, the body of the `while buf.len() >= 16`   *)
(* loop of start_receiver, run until it breaks.  b is the accumulator, out the *)
(* events sent on message_tx so far, d the number of buf.clear() taken.        *)
(* status "panicked": Buf::advance(16) on a frame shorter than 16 bytes, or a  *)
(* body decoder running past the end, unwinds the task.                        *)

\* mutant: a kind without a handler is decoded as an OrderAck
Dispatch_mut(msg_type, msg_buf) ==
    CASE msg_type = "OrderAck" -> OrderAckMessage_decode(msg_buf)
      [] msg_type = "OrderReject" -> OrderRejectMessage_decode(msg_buf)
      [] msg_type = "Execution" -> ExecutionMessage_decode(msg_buf)
      [] OTHER -> OrderAckMessage_decode(msg_buf)

\* `match header.msg_type`: the three handled kinds go to their decoder, any
\* other kind is logged and nothing is sent (as after a decoder's Err)
Dispatch(msg_type, msg_buf) ==
    CASE msg_type = "OrderAck" -> OrderAckMessage_decode(msg_buf)
      [] msg_type = "OrderReject" -> OrderRejectMessage_decode(msg_buf)
      [] msg_type = "Execution" -> ExecutionMessage_decode(msg_buf)
      [] OTHER -> DecodeErr

\* mutant: the newest event overtakes the waiting ones
channel_send_mut(q, msg) == <<msg>> \o q

\* mpsc::UnboundedSender::send
channel_send(q, msg) == Append(q, msg)

\* mutant: the bytes read replace the accumulator
read_buf_mut(b, chunk) == chunk

\* stream.read_buf(&mut buf): the bytes read are appended to the accumulator
read_buf(b, chunk) == b \o chunk

\* mutant: only the 16 header bytes are dropped
buf_clear_mut(b) == Drop(b, 16)

\* buf.clear() after a failed header decode
buf_clear(b) == <<>>

\* mutant: the completeness check is lost
need_more_mut(b, header) == Len(b) < 16

\* `if buf.len() < header.length as usize`: the frame is not complete yet
need_more(b, header) == Len(b) < header.length

RECURSIVE ProcessBuffer(_, _, _)

\* one test of `while buf.len() >= 16` and, if it passes, one pass of the body
ProcessFrame(b, out, d) ==
    IF Len(b) < 16 THEN [buf |-> b, out |-> out, status |-> "ok", discards |-> d]
    ELSE LET header == MessageHeader_decode(b) IN
         IF ~header.ok
         THEN [buf |-> buf_clear(b), out |-> out, status |-> "ok", discards |-> d + 1]
         ELSE IF need_more(b, header)
         THEN [buf |-> b, out |-> out, status |-> "ok", discards |-> d]
         ELSE IF header.length > Len(b)   \* BytesMut::split_to past the end
         THEN [buf |-> b, out |-> out, status |-> "panicked", discards |-> d]
         ELSE LET frame == Take(b, header.length)
                  rest == Drop(b, header.length)
              IN  IF Len(frame) < 16
                  THEN [buf |-> rest, out |-> out, status |-> "panicked", discards |-> d]
                  ELSE LET r == Dispatch(header.msg_type, Drop(frame, 16)) IN
                       IF r.panic
                       THEN [buf |-> rest, out |-> out, status |-> "panicked", discards |-> d]
                       ELSE IF r.ok
                       THEN ProcessBuffer(rest, channel_send(out, r.msg), d)
                       ELSE ProcessBuffer(rest, out, d)

\* the while loop on the accumulator and the channel as they are when it starts
ProcessBuffer(b0, out0, d) ==
    CHOOSE res \in {ProcessFrame(b, out, d) : b \in {b0}, out \in {out0}} : TRUE

----------------------------------------------------------------------------
(* Inputs *)

SymAAPL == <<65, 65, 80, 76>>
Sym15 == <<65, 66, 67, 68, 69, 70, 71, 72, 73, 74, 75, 76, 77, 78, 79>>
Sym20 == Sym15 \o <<80, 81, 82, 83, 84>>
Sym1 == <<90>>
Sym16 == Sym15 \o <<80>>
Symbols == {<<>>, Sym1, SymAAPL, Sym15, Sym16, Sym20}
Nows == {0, 1700000000}

\* arguments of submit_order tried on a connection
OrderInputs ==
    {[symbol |-> SymAAPL, user_id |-> 7, side |-> "Buy", order_type |-> "Limit",
      price |-> 15050, quantity |-> 100]}

\* arguments of cancel_order tried on a connection
CancelInputs == {[symbol |-> SymAAPL, client_order_id |-> 1, user_id |-> 7]}

\* headers handed to MessageHeader::encode in SpecHeader: every kind with small,
\* typical and large field values (the largest ones the 32-bit checker can hold)
HeaderValues ==
    [version : {0, 1, 2, 255}, msg_type : MessageTypes, reserved : {0, 1, 65535},
     length : {0, 15, 16, 88, 2147483646}, sequence : {0, 1, 2147483646}]

\* messages handed to the encoders in SpecCodec
CodecInputs ==
    {NewOrderMessage_new(s, id, u, sd, ot, p, q, t) :
        s \in Symbols, id \in {1, 2, 300}, u \in {7}, sd \in {"Buy", "Sell"},
        ot \in {"Limit", "Market"}, p \in {0, 15050}, q \in {100}, t \in Nows}
    \cup
    {CancelOrderMessage_new(s, id, u, t) :
        s \in Symbols, id \in {1, 2, 300}, u \in {7, 70000}, t \in Nows}

\* frames a peer may send, by name
InHeader(tag, length) == <<1, tag>> \o put_u16(0) \o put_u32(length) \o put_u64(0)
AckBody(id) == put_u64(id) \o put_u64(1000 + id) \o put_u64(7) \o put_u64(1700000000)

InFrameBytes(n) ==
    CASE n = "Ack1" -> InHeader(16, 48) \o AckBody(1)
      [] n = "Ack2" -> InHeader(16, 48) \o AckBody(2)
      [] n = "Heartbeat" -> InHeader(240, 16)
      [] n = "Unknown" -> InHeader(153, 16)
      [] n = "UnknownLong" -> InHeader(153, 48) \o AckBody(1)
      [] n = "AckShort" -> InHeader(16, 32) \o put_u64(1) \o put_u64(1001)

\* byte strings handed to MessageHeader::decode: every length in HeaderLens with
\* every kind byte in KindBytes at offset 1 (where the string is that long)
HeaderLens == {0, 1, 2, 15, 16, 17, 64}
KindBytes == {MessageType_as_u8(t) : t \in MessageTypes} \cup {0, 4, 20, 153, 255}
HeaderInput(n, k) ==
    Take(<<PROTOCOL_VERSION, k>> \o put_u16(0) \o put_u32(n) \o put_u64(5) \o Zeros(48), n)

\* bodies as the gateway lays them out, cut or padded to n bytes
TextOK == <<79, 75>>
AckLayout == AckBody(1)
RejectLayout ==
    put_u64(1) \o put_u64(7) \o <<3>> \o Zeros(7) \o TextOK \o Zeros(62)
        \o put_u64(1700000000)
ExecutionLayout(symbol) ==
    symbol_bytes(symbol) \o put_u64(1) \o put_u64(1001) \o put_u64(9) \o put_u64(7)
        \o <<1>> \o Zeros(7) \o put_u64(15050) \o put_u64(60) \o put_u64(40)
        \o put_u64(1700000000)
Resize(b, n) == Take(b \o Zeros(n), n)

DecodeInputs ==
    {[kind |-> "Header", bytes |-> HeaderInput(n, k)] : n \in HeaderLens, k \in KindBytes}
    \cup {[kind |-> "OrderAck", bytes |-> Resize(AckLayout, n)] : n \in {0, 31, 32, 33}}
    \cup {[kind |-> "OrderReject", bytes |-> Resize(RejectLayout, n)] :
             n \in {0, 87, 88, 89, 95, 96, 97}}
    \cup {[kind |-> "Execution", bytes |-> Resize(ExecutionLayout(sym), n)] :
             n \in {0, 87, 88, 89}, sym \in Symbols}

\* frames of every handled kind, whole and with a body cut short, frames of kinds
\* without a handler, and a header whose length field is below the header size
FrameNames == {"Ack1", "AckShort", "Reject", "Reject88", "RejectShort", "Exec",
               "ExecShort", "Heartbeat", "Trade", "ShortLen"}

FrameBytes(n) ==
    CASE n = "Reject" -> InHeader(17, 112) \o RejectLayout
      [] n = "Reject88" -> InHeader(17, 104) \o Resize(RejectLayout, 88)
      [] n = "RejectShort" -> InHeader(17, 96) \o Resize(RejectLayout, 80)
      [] n = "Exec" -> InHeader(32, 104) \o ExecutionLayout(SymAAPL)
      [] n = "ExecShort" -> InHeader(32, 56) \o Resize(ExecutionLayout(SymAAPL), 40)
      [] n = "Trade" -> InHeader(48, 48) \o AckBody(1)
      [] n = "ShortLen" -> InHeader(240, 8)
      [] OTHER -> InFrameBytes(n)

RECURSIVE FlattenFrames(_)
FlattenFrames(names) == IF names = <<>> THEN <<>>
                        ELSE FrameBytes(Head(names)) \o FlattenFrames(Tail(names))

FrameStreams == UNION {[1..k -> FrameNames] : k \in 1..MaxInFrames}

\* byte counts one read_buf may return out of `left` bytes on their way
ReadSizes(left) == {n \in 1..left : n = left \/ n % ReadQuantum = 0}

\* readings of the clock in get_connection: out of range, three consecutive
\* nanoseconds of November 2023 (1700000000123456789 and on), -1, i64::MIN and
\* i64::MAX
ClockReadings ==
    {[some |-> FALSE]} \cup
    {[some |-> TRUE, bytes |-> b] :
        b \in {<<23, 151, 156, 254, 61, 133, 205, 21>>,
               <<23, 151, 156, 254, 61, 133, 205, 22>>,
               <<23, 151, 156, 254, 61, 133, 205, 23>>,
               <<255, 255, 255, 255, 255, 255, 255, 255>>,
               <<128, 0, 0, 0, 0, 0, 0, 0>>,
               <<127, 255, 255, 255, 255, 255, 255, 255>>}}

\* the readings used where the clock is not what is looked at
LifeClock == {[some |-> FALSE],
              [some |-> TRUE, bytes |-> <<23, 151, 156, 254, 61, 133, 205, 21>>],
              [some |-> TRUE, bytes |-> <<23, 151, 156, 254, 61, 133, 205, 22>>]}

\* what the socket does with a frame
SocketOutcomes == {"ok", "write_err", "flush_err"}

InFrameNames == {"Ack1", "Ack2", "Heartbeat", "Unknown", "UnknownLong", "AckShort"}

RECURSIVE Flatten(_)
Flatten(names) == IF names = <<>> THEN <<>>
                  ELSE InFrameBytes(Head(names)) \o Flatten(Tail(names))

InStreams == {names \in UNION {[1..k -> InFrameNames] : k \in 1..MaxInFrames} :
                 Len(Flatten(names)) <= MaxStreamBytes}

----------------------------------------------------------------------------
(* client.rs: MatchingConnection, the send path *)

NoCall == [op |-> "none"]

\* mutant: the socket is used without the mutex
MutexFree_mut == TRUE

\* tokio::sync::Mutex::lock resolves only while no guard is alive
MutexFree == ~locked

\* mutant: the incremented value is returned but not stored
next_sequence_mut(seq) == [seq |-> seq, ret |-> seq + 1]

\* next_sequence: `*seq += 1; *seq` under the RwLock write guard
next_sequence(seq) == [seq |-> seq + 1, ret |-> seq + 1]

\* sizes one poll_write may take out of `left` remaining bytes
WriteSizes(left) == {n \in 1..left : n = left \/ n % WriteQuantum = 0}

\* callers that have made a call; tasks are numbered in the order of their first call
HasCalled(c) == call[c] # NoCall \/ \E r \in returned : r.caller = c
MayCall(c) == pc[c] = "idle" /\ ncalls < MaxCalls /\ \A d \in 1..(c - 1) : HasCalled(d)

\* socket errors seen so far
Failures == Cardinality({r \in returned : r.io # "ok"})

\* mutant: the result of flush() is dropped
send_message_result_mut(io) == io # "write_err"

\* send_message: `write_all(..).await.context(..)?`, `flush().await.context(..)?`,
\* `Ok(())`; submit_order and cancel_order pass an Err on with `?`.
\* io is what the socket did: "ok", "write_err" or "flush_err"; TRUE stands for Ok.
send_message_result(io) == io = "ok"

\* what a finished call leaves behind: guard dropped, result handed to the caller
Return(c, io) ==
    /\ returned' = returned \cup {[no |-> call[c].no, caller |-> c, op |-> call[c].op,
                                     io |-> io, ok |-> send_message_result(io),
                                     id |-> call[c].client_order_id]}
    /\ call' = [call EXCEPT ![c] = NoCall]
    /\ pc' = [pc EXCEPT ![c] = "idle"]

\* mutant: cancel_order takes an id from the counter as well
CancelOrder_mut(c, a, now) ==
    /\ MayCall(c)
    /\ ncalls' = ncalls + 1
    /\ sequence' = next_sequence(sequence).seq
    /\ LET msg == CancelOrderMessage_new(a.symbol, a.client_order_id, a.user_id, now)
       IN  call' = [call EXCEPT ![c] = [op |-> "cancel", no |-> ncalls + 1, args |-> a,
                                        client_order_id |-> a.client_order_id,
                                        data |-> CancelOrderMessage_encode(msg),
                                        written |-> 0]]
    /\ pc' = [pc EXCEPT ![c] = "lock"]
    /\ UNCHANGED <<locked, allocs, returned, wire>>
    /\ UNCHANGED <<recvVars, codecVars, poolVars>>

\* mutant: the id is taken with the stream mutex already held
NextSequence_mut(c, now) ==
    /\ pc[c] = "next_sequence"
    /\ MutexFree
    /\ locked' = TRUE
    /\ LET r == next_sequence(sequence)
           a == call[c].args
           msg == NewOrderMessage_new(a.symbol, r.ret, a.user_id, a.side, a.order_type,
                                      a.price, a.quantity, now)
       IN  /\ sequence' = r.seq
           /\ allocs' = Append(allocs, [no |-> call[c].no, id |-> r.ret])
           /\ call' = [call EXCEPT ![c].client_order_id = r.ret,
                                   ![c].data = NewOrderMessage_encode(msg)]
    /\ pc' = [pc EXCEPT ![c] = "write"]
    /\ UNCHANGED <<ncalls, returned, wire>>
    /\ UNCHANGED <<recvVars, codecVars, poolVars>>

\* submit_order is called: the future is created and first polled
SubmitOrder(c, a) ==
    /\ MayCall(c)
    /\ ncalls' = ncalls + 1
    /\ call' = [call EXCEPT ![c] = [op |-> "submit", no |-> ncalls + 1, args |-> a,
                                    client_order_id |-> 0, data |-> <<>>, written |-> 0]]
    /\ pc' = [pc EXCEPT ![c] = "next_sequence"]
    /\ UNCHANGED <<sequence, locked, allocs, returned, wire>>
    /\ UNCHANGED <<recvVars, codecVars, poolVars>>

\* self.next_sequence().await, then NewOrderMessage::new(..) and msg.encode()
NextSequence(c, now) ==
    /\ pc[c] = "next_sequence"
    /\ LET r == next_sequence(sequence)
           a == call[c].args
           msg == NewOrderMessage_new(a.symbol, r.ret, a.user_id, a.side, a.order_type,
                                      a.price, a.quantity, now)
       IN  /\ sequence' = r.seq
           /\ allocs' = Append(allocs, [no |-> call[c].no, id |-> r.ret])
           /\ call' = [call EXCEPT ![c].client_order_id = r.ret,
                                   ![c].data = NewOrderMessage_encode(msg)]
    /\ pc' = [pc EXCEPT ![c] = "lock"]
    /\ UNCHANGED <<locked, ncalls, returned, wire>>
    /\ UNCHANGED <<recvVars, codecVars, poolVars>>

\* cancel_order is called: CancelOrderMessage::new(..), msg.encode(), up to the lock
CancelOrder(c, a, now) ==
    /\ MayCall(c)
    /\ ncalls' = ncalls + 1
    /\ LET msg == CancelOrderMessage_new(a.symbol, a.client_order_id, a.user_id, now)
       IN  call' = [call EXCEPT ![c] = [op |-> "cancel", no |-> ncalls + 1, args |-> a,
                                        client_order_id |-> a.client_order_id,
                                        data |-> CancelOrderMessage_encode(msg),
                                        written |-> 0]]
    /\ pc' = [pc EXCEPT ![c] = "lock"]
    /\ UNCHANGED <<sequence, locked, allocs, returned, wire>>
    /\ UNCHANGED <<recvVars, codecVars, poolVars>>

\* send_message: self.stream.lock().await
SendLock(c) ==
    /\ pc[c] = "lock"
    /\ MutexFree
    /\ locked' = TRUE
    /\ pc' = [pc EXCEPT ![c] = "write"]
    /\ UNCHANGED <<sequence, call, ncalls, allocs, returned, wire>>
    /\ UNCHANGED <<recvVars, codecVars, poolVars>>

\* send_message: one poll_write of write_all, taking n bytes
WriteSome(c) ==
    /\ pc[c] = "write"
    /\ \E n \in WriteSizes(Len(call[c].data) - call[c].written) :
       LET w == call[c].written + n IN
       /\ wire' = Append(wire, [no |-> call[c].no, op |-> call[c].op,
                                id |-> call[c].client_order_id,
                                data |-> SubSeq(call[c].data, call[c].written + 1, w),
                                last |-> (w = Len(call[c].data))])
       /\ call' = [call EXCEPT ![c].written = w]
       /\ pc' = [pc EXCEPT ![c] = IF w = Len(call[c].data) THEN "flush" ELSE "write"]
    /\ UNCHANGED <<sequence, locked, ncalls, allocs, returned>>
    /\ UNCHANGED <<recvVars, codecVars, poolVars>>

\* send_message: write_all fails, `?` returns the error and drops the guard
WriteFail(c) ==
    /\ pc[c] = "write"
    /\ Failures < MaxFailures
    /\ locked' = FALSE
    /\ Return(c, "write_err")
    /\ UNCHANGED <<sequence, ncalls, allocs, wire>>
    /\ UNCHANGED <<recvVars, codecVars, poolVars>>

\* send_message: stream.flush() succeeds, the guard is dropped, the call returns Ok
Flush(c) ==
    /\ pc[c] = "flush"
    /\ locked' = FALSE
    /\ Return(c, "ok")
    /\ UNCHANGED <<sequence, ncalls, allocs, wire>>
    /\ UNCHANGED <<recvVars, codecVars, poolVars>>

\* send_message: stream.flush() fails
FlushFail(c) ==
    /\ pc[c] = "flush"
    /\ Failures < MaxFailures
    /\ locked' = FALSE
    /\ Return(c, "flush_err")
    /\ UNCHANGED <<sequence, ncalls, allocs, wire>>
    /\ UNCHANGED <<recvVars, codecVars, poolVars>>

----------------------------------------------------------------------------
(* client.rs: MatchingConnection, the receiver task *)

\* mutant: a failed read is retried
after_read_mut(outcome) == IF outcome = "eof" THEN "terminated" ELSE "lock"

\* the match on stream.read_buf(..): Ok(0) and Err(e) break out of the loop and the
\* task ends, Ok(n) goes on to the processing and back to the top of the loop
after_read(outcome) == IF outcome \in {"eof", "err"} THEN "terminated" ELSE "lock"

\* top of the loop: stream.lock().await
ReaderLock ==
    /\ rpc = "lock"
    /\ MutexFree
    /\ locked' = TRUE
    /\ rpc' = "read"
    /\ UNCHANGED <<sequence, pc, call, ncalls, allocs, returned, wire>>
    /\ UNCHANGED <<buf, inflight, stream, sent, peerClosed, queue, received>>
    /\ UNCHANGED <<codecVars, poolVars>>

\* read_buf returns Ok(n), n > 0: drop the guard, then run the reassembler
ReaderRead(n) ==
    /\ rpc = "read"
    /\ n \in 1..Len(inflight)
    /\ \E r \in {ProcessBuffer(read_buf(buf, Take(inflight, n)), queue, 0)} :
       /\ buf' = r.buf
       /\ queue' = r.out
       /\ rpc' = IF r.status = "panicked" THEN "panicked" ELSE after_read("data")
    /\ inflight' = Drop(inflight, n)
    /\ locked' = FALSE
    /\ UNCHANGED <<sequence, pc, call, ncalls, allocs, returned, wire>>
    /\ UNCHANGED <<stream, sent, peerClosed, received>>
    /\ UNCHANGED <<codecVars, poolVars>>

\* read_buf returns Ok(0): break, the guard is dropped with the task
ReaderEof ==
    /\ rpc = "read"
    /\ inflight = <<>>
    /\ peerClosed
    /\ rpc' = after_read("eof")
    /\ locked' = FALSE
    /\ UNCHANGED <<sequence, pc, call, ncalls, allocs, returned, wire>>
    /\ UNCHANGED <<buf, inflight, stream, sent, peerClosed, queue, received>>
    /\ UNCHANGED <<codecVars, poolVars>>

\* read_buf returns Err(e): break
ReaderErr ==
    /\ rpc = "read"
    /\ rpc' = after_read("err")
    /\ locked' = FALSE
    /\ UNCHANGED <<sequence, pc, call, ncalls, allocs, returned, wire>>
    /\ UNCHANGED <<buf, inflight, stream, sent, peerClosed, queue, received>>
    /\ UNCHANGED <<codecVars, poolVars>>

\* the consumer of message_rx: rx.recv().await
Recv ==
    /\ queue # <<>>
    /\ received' = Append(received, Head(queue))
    /\ queue' = Tail(queue)
    /\ UNCHANGED <<connVars, rpc, buf, inflight, stream, sent, peerClosed>>
    /\ UNCHANGED <<codecVars, poolVars>>

----------------------------------------------------------------------------
(* The peer (the matching engine gateway) *)

\* NewOrder frames completely on the wire, in wire order
CompletedOrders == SelectSeq(wire, LAMBDA s : s.last /\ s.op = "submit")

\* the peer acknowledges the next order it has received, in request order
PeerAck ==
    /\ ~peerClosed
    /\ Len(sent) < Len(CompletedOrders)
    /\ LET id == CompletedOrders[Len(sent) + 1].id
           f == InHeader(16, 48) \o AckBody(id)
       IN  /\ inflight' = inflight \o f
           /\ stream' = stream \o f
           /\ sent' = Append(sent, id)
    /\ UNCHANGED <<connVars, rpc, buf, peerClosed, queue, received>>
    /\ UNCHANGED <<codecVars, poolVars>>

PeerClose ==
    /\ ~peerClosed
    /\ peerClosed' = TRUE
    /\ UNCHANGED <<connVars, rpc, buf, inflight, stream, sent, queue, received>>
    /\ UNCHANGED <<codecVars, poolVars>>

----------------------------------------------------------------------------
(* protocol.rs: the encoders applied to one message *)

EncodeNewOrder ==
    /\ cOut = <<>>
    /\ cIn.header.msg_type = "NewOrder"
    /\ cOut' = NewOrderMessage_encode(cIn)
    /\ UNCHANGED <<cIn, dKind, dIn, dOut, connVars, recvVars, poolVars>>

EncodeCancelOrder ==
    /\ cOut = <<>>
    /\ cIn.header.msg_type = "CancelOrder"
    /\ cOut' = CancelOrderMessage_encode(cIn)
    /\ UNCHANGED <<cIn, dKind, dIn, dOut, connVars, recvVars, poolVars>>

\* header.encode(&mut buf); the bytes written are what a decoder is given next
EncodeHeader ==
    /\ cOut = <<>>
    /\ dKind = "none"
    /\ cOut' = MessageHeader_encode(cIn.header)
    /\ dKind' = "Header"
    /\ dIn' = cOut'
    /\ UNCHANGED <<cIn, dOut, connVars, recvVars, poolVars>>

----------------------------------------------------------------------------
(* protocol.rs: the decoders applied to one byte string *)

NotDecoded == [ok |-> FALSE, pending |-> TRUE]

DecodeHeader ==
    /\ dKind = "Header"
    /\ dOut = NotDecoded
    /\ dOut' = MessageHeader_decode(dIn)
    /\ UNCHANGED <<cIn, cOut, dKind, dIn, connVars, recvVars, poolVars>>

DecodeOrderAck ==
    /\ dKind = "OrderAck"
    /\ dOut = NotDecoded
    /\ dOut' = OrderAckMessage_decode(dIn)
    /\ UNCHANGED <<cIn, cOut, dKind, dIn, connVars, recvVars, poolVars>>

DecodeOrderReject ==
    /\ dKind = "OrderReject"
    /\ dOut = NotDecoded
    /\ dOut' = OrderRejectMessage_decode(dIn)
    /\ UNCHANGED <<cIn, cOut, dKind, dIn, connVars, recvVars, poolVars>>

DecodeExecution ==
    /\ dKind = "Execution"
    /\ dOut = NotDecoded
    /\ dOut' = ExecutionMessage_decode(dIn)
    /\ UNCHANGED <<cIn, cOut, dKind, dIn, connVars, recvVars, poolVars>>

----------------------------------------------------------------------------
(* client.rs: MatchingClient::new *)

ConnectOutcomes == {"ok", "timeout", "failed"}

\* the match on MatchingConnection::connect(..): push on Ok, log on Err
PoolKeep(conns, i, outcome) == IF outcome = "ok" THEN Append(conns, i) ELSE conns

\* mutant: construction fails unless every attempt succeeded
PoolOutcome_mut(conns) == IF Len(conns) < pool_size THEN "Err" ELSE "Ok"

\* `if connections.is_empty() { bail!(..) }`, otherwise Ok(Self { .. })
PoolOutcome(conns) == IF conns = <<>> THEN "Err" ELSE "Ok"

\* MatchingClient::new(address, n, timeout) is called
PoolNew(n) ==
    /\ ppc = "start"
    /\ pool_size' = n
    /\ attempt' = 0
    /\ ppc' = "connecting"
    /\ UNCHANGED <<attempts, connections, poolResult>>
    /\ UNCHANGED <<conn_seq, receiver, pool_calls, routed, last_event, pool_ids>>
    /\ UNCHANGED <<connVars, recvVars, codecVars>>

\* one iteration of `for i in 0..pool_size`
PoolConnect(outcome) ==
    /\ ppc = "connecting"
    /\ attempt < pool_size
    /\ attempts' = Append(attempts, [i |-> attempt, outcome |-> outcome])
    /\ connections' = PoolKeep(connections, attempt, outcome)
    /\ conn_seq' = PoolKeep(conn_seq, 0, outcome)
    /\ receiver' = PoolKeep(receiver, "running", outcome)
    /\ attempt' = attempt + 1
    /\ UNCHANGED <<ppc, pool_size, poolResult, pool_calls, routed, last_event, pool_ids>>
    /\ UNCHANGED <<connVars, recvVars, codecVars>>

\* after the loop
PoolFinish ==
    /\ ppc = "connecting"
    /\ attempt = pool_size
    /\ poolResult' = PoolOutcome(connections)
    /\ ppc' = "done"
    /\ UNCHANGED <<pool_size, attempt, attempts, connections>>
    /\ UNCHANGED <<conn_seq, receiver, pool_calls, routed, last_event, pool_ids>>
    /\ UNCHANGED <<connVars, recvVars, codecVars>>

----------------------------------------------------------------------------
(* client.rs: MatchingClient, the calls routed through the pool *)

NoRoute == [op |-> "none"]

\* chrono::Utc::now().timestamp_nanos_opt().unwrap_or(0): a reading of the clock is
\* None when the date is outside the range of i64 nanoseconds, or an i64, kept as
\* its 8 two's-complement bytes, most significant first
timestamp_nanos_or_0(now) == IF now.some THEN now.bytes ELSE Zeros(8)

\* `x as usize % n` on a 64-bit target: the cast keeps the 64 bits and reads them
\* as unsigned; the remainder is taken byte by byte
RECURSIVE usize_mod(_, _)
usize_mod(b, n) ==
    IF b = <<>> THEN 0
    ELSE (usize_mod(SubSeq(b, 1, Len(b) - 1), n) * 256 + b[Len(b)]) % n

\* mutant: the modulus is off by one
route_index_mut(now, conns) == usize_mod(timestamp_nanos_or_0(now), Len(conns) + 1)

\* get_connection: the index into a non-empty connections
route_index(now, conns) == usize_mod(timestamp_nanos_or_0(now), Len(conns))

\* a MatchingClient exists: new has returned Ok(Self { .. })
PoolReady == ppc = "done" /\ poolResult = "Ok"

\* MatchingClient::submit_order / cancel_order up to the delegation:
\* get_connection fails on an empty pool, otherwise picks connections[idx]
\* (an index past the end panics)
get_connection(now) ==
    IF connections = <<>> THEN [ok |-> FALSE, err |-> "NoConnections"]
    ELSE LET idx == route_index(now, connections) IN
         IF idx >= Len(connections) THEN [ok |-> FALSE, err |-> "panic", idx |-> idx]
         ELSE [ok |-> TRUE, idx |-> idx, conn |-> connections[idx + 1]]

\* MatchingClient::submit_order: get_connection().await?, then conn.submit_order(..),
\* which takes the next id of that connection and sends the frame (io: what the
\* socket did)
PoolSubmitOrder(now, io) ==
    /\ PoolReady
    /\ pool_calls < MaxPoolCalls
    /\ pool_calls' = pool_calls + 1
    /\ LET g == get_connection(now) IN
       IF ~g.ok
       THEN /\ routed' = [op |-> "submit", no |-> pool_calls + 1, ok |-> FALSE, err |-> g.err]
            /\ UNCHANGED <<conn_seq, pool_ids>>
       ELSE LET r == next_sequence(conn_seq[g.idx + 1]) IN
            /\ conn_seq' = [conn_seq EXCEPT ![g.idx + 1] = r.seq]
            /\ routed' = [op |-> "submit", no |-> pool_calls + 1, idx |-> g.idx,
                          conn |-> g.conn, task |-> receiver[g.idx + 1],
                          ok |-> send_message_result(io), id |-> r.ret]
            /\ pool_ids' = IF send_message_result(io)
                            THEN pool_ids \cup {[no |-> pool_calls + 1, conn |-> g.conn,
                                                  id |-> r.ret]}
                            ELSE pool_ids
    /\ UNCHANGED <<ppc, pool_size, attempt, attempts, connections, poolResult>>
    /\ UNCHANGED <<receiver, last_event>>
    /\ UNCHANGED <<connVars, recvVars, codecVars>>

\* MatchingClient::cancel_order: get_connection().await?, then conn.cancel_order(..)
PoolCancelOrder(now, id, io) ==
    /\ PoolReady
    /\ pool_calls < MaxPoolCalls
    /\ pool_calls' = pool_calls + 1
    /\ LET g == get_connection(now) IN
       IF ~g.ok
       THEN routed' = [op |-> "cancel", no |-> pool_calls + 1, ok |-> FALSE, err |-> g.err]
       ELSE routed' = [op |-> "cancel", no |-> pool_calls + 1, idx |-> g.idx,
                       conn |-> g.conn, task |-> receiver[g.idx + 1],
                       ok |-> send_message_result(io), id |-> id]
    /\ UNCHANGED <<ppc, pool_size, attempt, attempts, connections, poolResult>>
    /\ UNCHANGED <<conn_seq, receiver, last_event, pool_ids>>
    /\ UNCHANGED <<connVars, recvVars, codecVars>>

\* mutant: the pool drops a connection whose receiver has ended
PoolReceiverEnds_mut(p) ==
    /\ PoolReady
    /\ p \in DOMAIN connections
    /\ receiver[p] = "running"
    /\ connections' = SubSeq(connections, 1, p - 1) \o SubSeq(connections, p + 1, Len(connections))
    /\ conn_seq' = SubSeq(conn_seq, 1, p - 1) \o SubSeq(conn_seq, p + 1, Len(conn_seq))
    /\ receiver' = SubSeq(receiver, 1, p - 1) \o SubSeq(receiver, p + 1, Len(receiver))
    /\ UNCHANGED <<ppc, pool_size, attempt, attempts, poolResult>>
    /\ UNCHANGED <<pool_calls, routed, last_event, pool_ids>>
    /\ UNCHANGED <<connVars, recvVars, codecVars>>

\* the receiver task of the connection at position p ends (read_buf returned Ok(0)
\* or Err): it logs and returns, and nothing reaches the pool
PoolReceiverEnds(p) ==
    /\ PoolReady
    /\ p \in DOMAIN connections
    /\ receiver[p] = "running"
    /\ receiver' = [receiver EXCEPT ![p] = after_read("eof")]
    /\ UNCHANGED <<ppc, pool_size, attempt, attempts, connections, poolResult>>
    /\ UNCHANGED <<conn_seq, pool_calls, routed, last_event, pool_ids>>
    /\ UNCHANGED <<connVars, recvVars, codecVars>>

\* an event of the connection at position p reaches the task new() spawned for it:
\* `while let Some(msg) = rx.recv().await { debug!(..) }`
PoolEvent(p) ==
    /\ PoolReady
    /\ p \in DOMAIN connections
    /\ receiver[p] = "running"
    /\ last_event' = connections[p]
    /\ UNCHANGED pool_ids
    /\ UNCHANGED <<ppc, pool_size, attempt, attempts, connections, poolResult>>
    /\ UNCHANGED <<conn_seq, receiver, pool_calls, routed>>
    /\ UNCHANGED <<connVars, recvVars, codecVars>>

----------------------------------------------------------------------------
(* Initial states and specifications *)

\* MatchingConnection::connect has returned: counter 0, mutex free, receiver spawned
InitConn ==
    /\ sequence = 0
    /\ locked = FALSE
    /\ pc = [c \in Callers |-> "idle"]
    /\ call = [c \in Callers |-> NoCall]
    /\ ncalls = 0
    /\ allocs = <<>>
    /\ returned = {}
    /\ wire = <<>>

InitRecv ==
    /\ rpc = "lock"
    /\ buf = <<>>
    /\ inflight = <<>>
    /\ stream = <<>>
    /\ sent = <<>>
    /\ peerClosed = FALSE
    /\ queue = <<>>
    /\ received = <<>>

InitCodec ==
    /\ cIn = NoCall
    /\ cOut = <<>>
    /\ dKind = "none"
    /\ dIn = <<>>
    /\ dOut = NotDecoded

InitPool ==
    /\ ppc = "start"
    /\ pool_size = 0
    /\ attempt = 0
    /\ attempts = <<>>
    /\ connections = <<>>
    /\ poolResult = "none"
    /\ conn_seq = <<>>
    /\ receiver = <<>>
    /\ pool_calls = 0
    /\ routed = NoRoute
    /\ last_event = -1
    /\ pool_ids = {}

Init == InitConn /\ InitRecv /\ InitCodec /\ InitPool

Next ==
    \/ \E c \in Callers, a \in OrderInputs : SubmitOrder(c, a)
    \/ \E c \in Callers, now \in {1700000000} : NextSequence(c, now)
    \/ \E c \in Callers, a \in CancelInputs, now \in {1700000000} : CancelOrder(c, a, now)
    \/ \E c \in Callers : SendLock(c)
    \/ \E c \in Callers : WriteSome(c)
    \/ \E c \in Callers : WriteFail(c)
    \/ \E c \in Callers : Flush(c)
    \/ \E c \in Callers : FlushFail(c)
    \/ ReaderLock
    \/ ReaderRead(Len(inflight))
    \/ ReaderErr
    \/ PeerAck

Spec == Init /\ [][Next]_vars

\* the send path of one connection alone: concurrent callers of submit_order and
\* cancel_order, the receiver task not yet scheduled
NextSend ==
    \/ \E c \in Callers, a \in OrderInputs : SubmitOrder(c, a)
    \/ \E c \in Callers, now \in {1700000000} : NextSequence(c, now)
    \/ \E c \in Callers, a \in CancelInputs, now \in {1700000000} : CancelOrder(c, a, now)
    \/ \E c \in Callers : SendLock(c)
    \/ \E c \in Callers : WriteSome(c)
    \/ \E c \in Callers : WriteFail(c)
    \/ \E c \in Callers : Flush(c)
    \/ \E c \in Callers : FlushFail(c)

SpecSend == Init /\ [][NextSend]_vars

\* the inbound stream is on its way in full; the receiver reads it in pieces of any size
InitReasm ==
    /\ InitConn /\ InitCodec /\ InitPool
    /\ rpc = "lock"
    /\ buf = <<>>
    /\ \E names \in InStreams :
          /\ sent = names
          /\ stream = Flatten(names)
          /\ inflight = Flatten(names)
    /\ peerClosed = TRUE
    /\ queue = <<>>
    /\ received = <<>>

NextReasm ==
    \/ ReaderLock
    \/ \E n \in 1..Len(inflight) : ReaderRead(n)
    \/ ReaderEof
    \/ ReaderErr
    \/ Recv

SpecReasm == InitReasm /\ [][NextReasm]_vars

\* the receiver on streams of frames of every kind, read in pieces
InitFrames ==
    /\ InitConn /\ InitCodec /\ InitPool
    /\ rpc = "lock"
    /\ buf = <<>>
    /\ \E names \in FrameStreams :
          /\ sent = names
          /\ stream = FlattenFrames(names)
          /\ inflight = FlattenFrames(names)
    /\ peerClosed = TRUE
    /\ queue = <<>>
    /\ received = <<>>

NextFrames ==
    \/ ReaderLock
    \/ \E n \in ReadSizes(Len(inflight)) : ReaderRead(n)
    \/ ReaderEof
    \/ ReaderErr
    \/ Recv

SpecFrames == InitFrames /\ [][NextFrames]_vars

InitCodecSpec ==
    /\ InitConn /\ InitRecv /\ InitPool
    /\ cIn \in CodecInputs
    /\ cOut = <<>>
    /\ dKind = "none"
    /\ dIn = <<>>
    /\ dOut = NotDecoded

NextCodec ==
    \/ EncodeNewOrder
    \/ EncodeCancelOrder

SpecCodec == InitCodecSpec /\ [][NextCodec]_vars

\* one header is encoded and the bytes are decoded again
InitHeaderSpec ==
    /\ InitConn /\ InitRecv /\ InitPool
    /\ \E h \in HeaderValues : cIn = [header |-> h]
    /\ cOut = <<>>
    /\ dKind = "none"
    /\ dIn = <<>>
    /\ dOut = NotDecoded

NextHeader ==
    \/ EncodeHeader
    \/ DecodeHeader

SpecHeader == InitHeaderSpec /\ [][NextHeader]_vars

InitDecodeSpec ==
    /\ InitConn /\ InitRecv /\ InitPool
    /\ cIn = NoCall
    /\ cOut = <<>>
    /\ \E i \in DecodeInputs : dKind = i.kind /\ dIn = i.bytes
    /\ dOut = NotDecoded

NextDecode ==
    \/ DecodeHeader
    \/ DecodeOrderAck
    \/ DecodeOrderReject
    \/ DecodeExecution

SpecDecode == InitDecodeSpec /\ [][NextDecode]_vars

NextPool ==
    \/ \E n \in 0..MaxPoolSize : PoolNew(n)
    \/ \E o \in ConnectOutcomes : PoolConnect(o)
    \/ PoolFinish
    \/ \E now \in ClockReadings, io \in SocketOutcomes : PoolSubmitOrder(now, io)
    \/ \E now \in ClockReadings, id \in {1}, io \in SocketOutcomes : PoolCancelOrder(now, id, io)

SpecPool == Init /\ [][NextPool]_vars

\* the pool with the receiver tasks of its connections ending and their events
\* arriving at any time
NextPoolLife ==
    \/ \E n \in 0..MaxPoolSize : PoolNew(n)
    \/ \E o \in ConnectOutcomes : PoolConnect(o)
    \/ PoolFinish
    \/ \E now \in LifeClock, io \in SocketOutcomes : PoolSubmitOrder(now, io)
    \/ \E now \in LifeClock, id \in {1}, io \in SocketOutcomes : PoolCancelOrder(now, id, io)
    \/ \E p \in 1..MaxPoolSize : PoolReceiverEnds(p)
    \/ \E p \in 1..MaxPoolSize : PoolEvent(p)

SpecPoolLife == Init /\ [][NextPoolLife]_vars

FairNext ==
    /\ \A c \in Callers : WF_vars(NextSequence(c, 1700000000))
    /\ \A c \in Callers : SF_vars(SendLock(c))
    /\ \A c \in Callers : WF_vars(WriteSome(c))
    /\ \A c \in Callers : WF_vars(Flush(c))
    /\ SF_vars(ReaderLock)
    /\ WF_vars(ReaderRead(Len(inflight)))

\* Spec under the runtime's scheduling: a ready task is polled, the mutex hands the
\* guard to every waiter in turn, a socket that accepts writes makes progress.
\* Nothing obliges the peer to send or to close, nor a caller to call.
FairSpec == Spec /\ FairNext

----------------------------------------------------------------------------
(* Claims *)

\* the bytes written to the socket for call number k, in wire order
RECURSIVE SegBytes(_, _)
SegBytes(w, k) ==
    IF w = <<>> THEN <<>>
    ELSE (IF Head(w).no = k THEN Head(w).data ELSE <<>>) \o SegBytes(Tail(w), k)

\* calls whose frame write_all has written to the end
WrittenCalls == {wire[i].no : i \in {j \in DOMAIN wire : wire[j].last}}

\* C1: NewOrderMessage::encode yields a frame of exactly 88 bytes laid out as
\* header(16) + symbol(16) + client_order_id(8) + user_id(8) + side(1) +
\* order_type(1) + reserved(2) + price(8) + quantity(8) + timestamp(8).
\* (Those widths add up to 76: the encoder writes 76 bytes under a header that says 88.)
C1_NewOrderFrameIs88Bytes ==
    (cOut # <<>> /\ cIn.header.msg_type = "NewOrder") =>
        /\ Len(cOut) = 88
        /\ Field(cOut, 1, 16) = MessageHeader_encode(cIn.header)
        /\ trim_end_nul(Field(cOut, 17, 16)) = Take(cIn.symbol, Min(Len(cIn.symbol), 15))
        /\ get_be(Field(cOut, 33, 8)) = cIn.client_order_id
        /\ get_be(Field(cOut, 41, 8)) = cIn.user_id
        /\ cOut[49] = Side_as_u8(cIn.side)
        /\ cOut[50] = OrderType_as_u8(cIn.order_type)
        /\ Field(cOut, 51, 2) = <<0, 0>>
        /\ get_be(Field(cOut, 53, 8)) = cIn.price
        /\ get_be(Field(cOut, 61, 8)) = cIn.quantity
        /\ get_be(Field(cOut, 69, 8)) = cIn.timestamp

\* C2: for every frame written in full by submit_order or cancel_order, the length
\* field of its header equals the number of bytes of that frame on the wire.
C2_LengthFieldCountsWrittenBytes ==
    \A k \in WrittenCalls :
        get_be(Field(SegBytes(wire, k), 5, 4)) = Len(SegBytes(wire, k))

\* C3: a call that has reached the socket lock eventually returns, whatever the
\* peer does, also when the peer never sends a byte.
C3_SendReturnsWithoutPeer ==
    \A c \in Callers : (pc[c] = "lock") ~> (pc[c] = "idle")

\* the part of the inbound stream the receiver has read, and what the reassembler
\* makes of it when it arrives in one read
ReadSoFar == Take(stream, Len(stream) - Len(inflight))
Whole == ProcessBuffer(ReadSoFar, <<>>, 0)

\* every event sent on message_tx so far, in the order the consumer sees them
Emitted == received \o queue

\* C4 as stated: however the stream is split into reads, the events emitted are
\* those of the same stream arriving in a single read.
C4_ChunkingEquivalence == Emitted = Whole.out

\* C4 amended: the same, for streams on which the single read meets no header-decode
\* failure (no buf.clear()); events, accumulator and the task's fate then agree.
C4_ChunkingEquivalenceNoDiscard ==
    Whole.discards = 0 =>
        /\ Emitted = Whole.out
        /\ buf = Whole.buf
        /\ (rpc = "panicked") = (Whole.status = "panicked")

\* a read boundary fell inside a frame after an event had been emitted
C4_Witness ==
    /\ Whole.discards = 0
    /\ Len(Emitted) >= 1
    /\ buf # <<>>
    /\ inflight # <<>>

\* the step in which read_buf returns bytes, and the accumulator the loop then sees
ReadStep == rpc = "read" /\ Len(inflight') < Len(inflight)
Acc == buf \o Take(inflight, Len(inflight) - Len(inflight'))
DeclaredLength(a) == get_be(Field(a, 5, 4))

\* C6 as stated: with 16 bytes or more in the accumulator and a declared length
\* beyond the bytes present, no event is emitted and the accumulator is unchanged.
C6_IncompleteFrameKept ==
    [][(ReadStep /\ Len(Acc) >= 16 /\ DeclaredLength(Acc) > Len(Acc))
        => (buf' = Acc /\ queue' = queue /\ rpc' = "lock")]_vars

\* C6 amended: the same, when the kind byte of that header is a recognized tag.
C6_IncompleteKnownFrameKept ==
    [][(ReadStep /\ Len(Acc) >= 16 /\ MessageType_try_from(Acc[2]) # "Err"
            /\ DeclaredLength(Acc) > Len(Acc))
        => (buf' = Acc /\ queue' = queue /\ rpc' = "lock")]_vars

\* the receiver is back at the top of its loop holding a recognized, incomplete frame
C6_Witness ==
    /\ rpc = "lock"
    /\ Len(buf) >= 16
    /\ MessageType_try_from(buf[2]) # "Err"
    /\ DeclaredLength(buf) > Len(buf)
    /\ Emitted = <<>>

\* what the peer put into an OrderAck frame of the catalogue
AckEvent(id) == [kind |-> "OrderAck", client_order_id |-> id,
                 exchange_order_id |-> 1000 + id, user_id |-> 7,
                 timestamp |-> 1700000000]

\* C7: with 16 bytes or more in the accumulator and an unrecognized kind byte at its
\* front, the whole accumulator is discarded and no event is emitted; the receiver
\* is back at the top of its loop with an empty accumulator, from which a
\* well-formed frame delivered by a later read is decoded into its event.
C7_UnknownKindDiscardsAll ==
    [][/\ (ReadStep /\ Len(Acc) >= 16 /\ MessageType_try_from(Acc[2]) = "Err")
            => (buf' = <<>> /\ queue' = queue /\ rpc' = "lock")
       /\ \A id \in {1, 2} :
            (ReadStep /\ buf = <<>> /\ Acc = InHeader(16, 48) \o AckBody(id))
            => (buf' = <<>> /\ queue' = Append(queue, AckEvent(id)) /\ rpc' = "lock")]_vars

\* an 0x99 header was discarded and the OrderAck sent after it was decoded
C7_Witness ==
    /\ sent = <<"Unknown", "Ack1">>
    /\ Emitted = <<AckEvent(1)>>
    /\ buf = <<>>

\* the events the peer's frames stand for, in the order sent
RECURSIVE Intended(_)
Intended(names) ==
    IF names = <<>> THEN <<>>
    ELSE (CASE Head(names) = "Ack1" -> <<AckEvent(1)>>
            [] Head(names) = "Ack2" -> <<AckEvent(2)>>
            [] OTHER -> <<>>) \o Intended(Tail(names))

RECURSIVE IsSubseq(_, _)
IsSubseq(a, b) ==
    IF a = <<>> THEN TRUE
    ELSE IF b = <<>> THEN FALSE
    ELSE IF Head(a) = Head(b) THEN IsSubseq(Tail(a), Tail(b))
    ELSE IsSubseq(a, Tail(b))

\* C8: the events reach the consumer in the order of their frames in the inbound
\* stream; when the OrderAck for id 1 is sent before the frame for id 2, no id-2
\* event is received before the id-1 event.
C8_EventsInStreamOrder ==
    /\ IsSubseq(Emitted, Intended(sent))
    /\ sent = <<"Ack1", "Ack2">> =>
         \A i \in DOMAIN received :
            received[i].client_order_id = 2 =>
               \E j \in 1..(i - 1) : received[j].client_order_id = 1

C8_Witness ==
    /\ sent = <<"Ack1", "Ack2">>
    /\ received = <<AckEvent(1), AckEvent(2)>>

\* results of submit_order calls that returned Ok(id)
OkSubmits == {r \in returned : r.op = "submit" /\ r.ok}

\* C5: the k-th id handed out on a connection is k; the ids returned by concurrent
\* submit_order calls are pairwise distinct, each the rank of its call among the
\* calls, and they are exactly 1..n once n calls have returned their ids.
C5_IdsAreCallRanks ==
    /\ \A k \in DOMAIN allocs : allocs[k].id = k
    /\ \A r \in OkSubmits :
          \E k \in DOMAIN allocs : allocs[k].no = r.no /\ r.id = k
    /\ \A r, q \in OkSubmits : r # q => r.id # q.id
    /\ Cardinality(OkSubmits) = Len(allocs) =>
          {r.id : r \in OkSubmits} = 1..Len(allocs)

\* two overlapping submit_order calls have both returned; the call that started
\* second took the counter first
C5_Witness ==
    /\ Cardinality(OkSubmits) = 2
    /\ \E r, q \in OkSubmits : r.no = 1 /\ r.id = 2 /\ q.no = 2 /\ q.id = 1

\* tasks holding a guard of the stream mutex
Holders == {c \in Callers : pc[c] \in {"write", "flush"}}
HoldCount == Cardinality(Holders) + (IF rpc = "read" THEN 1 ELSE 0)

\* C9: at most one task holds the socket at a time (no two writers, no writer with
\* the reader), and the bytes of one frame are contiguous on the wire.
C9_WritesSerialized ==
    /\ HoldCount <= 1
    /\ locked = (HoldCount = 1)
    /\ \A i, j, k \in DOMAIN wire :
          (i < j /\ j < k /\ wire[i].no = wire[k].no) => wire[j].no = wire[i].no

\* two frames on the wire, the first written in two pieces by the call that started
\* second while the call that started first waited for the mutex
C9_Witness ==
    /\ Len(wire) = 3
    /\ wire[1].no = wire[2].no
    /\ wire[3].no # wire[1].no
    /\ wire[3].last
    /\ wire[3].no < wire[1].no

\* indices of the attempts that connected, in order
RECURSIVE OkIndices(_)
OkIndices(as) ==
    IF as = <<>> THEN <<>>
    ELSE (IF Head(as).outcome = "ok" THEN <<Head(as).i>> ELSE <<>>) \o OkIndices(Tail(as))

\* C10: construction with target size N makes exactly N connect attempts, one per
\* index and in order; it fails iff none succeeded, and the live set is exactly the
\* connections whose attempt succeeded.
C10_PoolConstruction ==
    /\ \A k \in DOMAIN attempts : attempts[k].i = k - 1
    /\ Len(attempts) <= pool_size
    /\ connections = OkIndices(attempts)
    /\ ppc = "done" =>
          /\ Len(attempts) = pool_size
          /\ (poolResult = "Err") = (OkIndices(attempts) = <<>>)
          /\ (poolResult = "Ok") = (OkIndices(attempts) # <<>>)

\* size 3, exactly one attempt timed out, two live connections
C10_Witness ==
    /\ ppc = "done"
    /\ pool_size = 3
    /\ Cardinality({k \in DOMAIN attempts : attempts[k].outcome = "timeout"}) = 1
    /\ Len(connections) = 2
    /\ poolResult = "Ok"

\* the 13 tags of the wire protocol
DefinedTags == {1, 2, 3, 16, 17, 18, 19, 32, 48, 49, 240, 241, 242}

\* C16: MessageHeader::decode fails with the truncation error on fewer than 16
\* bytes, with the unknown-kind error on 16 or more bytes whose kind byte is not
\* one of the 13 tags, and succeeds otherwise.
C16_HeaderDecodeErrors ==
    (dKind = "Header" /\ dOut # NotDecoded) =>
        IF Len(dIn) < 16 THEN ~dOut.ok /\ dOut.err = "UnexpectedEof"
        ELSE IF dIn[2] \notin DefinedTags THEN ~dOut.ok /\ dOut.err = "InvalidData"
        ELSE dOut.ok /\ MessageType_as_u8(dOut.msg_type) = dIn[2]

\* exactly 16 bytes with an unknown kind byte have been decoded
C16_Witness ==
    /\ dKind = "Header"
    /\ dOut # NotDecoded
    /\ Len(dIn) = 16
    /\ dIn[2] = 153
    /\ ~dOut.ok

\* the sum of the field widths of each inbound body, as the decoders read them
BodyWidths(kind) ==
    CASE kind = "OrderAck" -> 8 + 8 + 8 + 8
      [] kind = "OrderReject" -> 8 + 8 + 1 + 7 + 64 + 8
      [] kind = "Execution" -> 16 + 8 + 8 + 8 + 8 + 1 + 7 + 8 + 8 + 8 + 8

\* C17: a body decoder returns the truncation error, reading nothing past the
\* bytes it was given, on fewer bytes than the sum of the field widths of its
\* layout, and a decoded frame on at least that many.
C17_BodyDecodeTruncation ==
    (dKind \in {"OrderAck", "OrderReject", "Execution"} /\ dOut # NotDecoded) =>
        IF Len(dIn) < BodyWidths(dKind) THEN dOut = DecodeErr
        ELSE dOut.ok /\ dOut.msg.kind = dKind

\* C18: OrderRejectMessage::decode on exactly 88 body bytes succeeds and yields
\* the ids, the reason, the NUL-trimmed text and the timestamp.
C18_RejectBodyIs88Bytes ==
    (dKind = "OrderReject" /\ Len(dIn) = 88 /\ dOut # NotDecoded) =>
        /\ dOut.ok
        /\ dOut.msg.client_order_id = 1
        /\ dOut.msg.user_id = 7
        /\ dOut.msg.reason = 3
        /\ dOut.msg.text = TextOK

\* a message whose fields are all empty or zero
ZeroOrder == NewOrderMessage_new(<<>>, 0, 0, "Sell", "Market", 0, 0, 0)

\* C19: the encoded length does not depend on the field values: a CancelOrder
\* frame is 56 bytes and a NewOrder frame is as long as the frame of an order
\* with an empty symbol and zero fields, for symbols of 0, 1, 4, 15, 16 and 20 bytes.
C19_EncodedLengthFixed ==
    cOut # <<>> =>
        IF cIn.header.msg_type = "CancelOrder" THEN Len(cOut) = 56
        ELSE Len(cOut) = Len(NewOrderMessage_encode(ZeroOrder))

\* a NewOrder with a 20-byte symbol has been encoded
C19_Witness ==
    /\ cOut # <<>>
    /\ cIn.header.msg_type = "NewOrder"
    /\ Len(cIn.symbol) = 20
    /\ cIn.client_order_id = 300

\* the symbol field of an encoded frame, and that field read back the way
\* ExecutionMessage::decode reads the symbol field of an execution report
SymbolField(frame) == Field(frame, 17, 16)
DecodedSymbol(field) == ExecutionMessage_decode(field \o Zeros(72)).msg.symbol

\* C20: the symbol field is 16 bytes, the first min(len, 15) bytes of the symbol
\* then NULs, so its 16th byte is NUL; read back with the trailing NULs trimmed,
\* a 15-byte symbol is unchanged and a 20-byte symbol gives its first 15 bytes.
C20_SymbolField ==
    cOut # <<>> =>
        LET f == SymbolField(cOut)
            n == Min(Len(cIn.symbol), 15)
        IN  /\ Len(cOut) >= 32
            /\ Take(f, n) = Take(cIn.symbol, n)
            /\ \A i \in (n + 1)..16 : f[i] = 0
            /\ f[16] = 0
            /\ Len(cIn.symbol) \in {15, 20} => DecodedSymbol(f) = Take(cIn.symbol, 15)

\* a CancelOrder with a 20-byte symbol has been encoded
C20_Witness ==
    /\ cOut # <<>>
    /\ cIn.header.msg_type = "CancelOrder"
    /\ cIn.symbol = Sym20
    /\ DecodedSymbol(SymbolField(cOut)) = Sym15

\* C15: a call whose write_all or flush failed returns a failure (Err, which
\* carries no id); a call that returns success has its whole frame on the socket
\* and has been flushed.
C15_WriteErrorsPropagate ==
    \A r \in returned :
        /\ r.io # "ok" => ~r.ok
        /\ r.ok => /\ r.io = "ok"
                   /\ r.no \in WrittenCalls
                   /\ Len(SegBytes(wire, r.no)) =
                          IF r.op = "cancel" THEN 56 ELSE Len(NewOrderMessage_encode(ZeroOrder))

\* a submit_order whose frame was written to the end and whose flush failed has
\* returned, after another call returned success
C15_Witness ==
    \E r, q \in returned :
        /\ r.op = "submit" /\ r.io = "flush_err" /\ ~r.ok /\ r.no \in WrittenCalls
        /\ q.ok

\* C14: a read that returns end-of-stream or an error ends the read loop at once;
\* from then on the task stays ended, no event is enqueued (the channel and its
\* consumer together hold the same number of events), the accumulator is left as
\* it is and no connect attempt is made.
C14_ReadLoopTerminates ==
    [][/\ (rpc = "read" /\ rpc' # "read" /\ inflight' = inflight) => rpc' = "terminated"
       /\ rpc = "terminated" =>
             /\ rpc' = "terminated"
             /\ Len(queue') + Len(received') = Len(queue) + Len(received)
             /\ buf' = buf /\ inflight' = inflight
             /\ attempts' = attempts /\ connections' = connections]_vars

\* the loop ended on a read error with bytes of the stream still unread, after an
\* event that the consumer has taken
C14_Witness ==
    /\ rpc = "terminated"
    /\ inflight # <<>>
    /\ received # <<>>

\* the attempt indices whose connect succeeded
LiveAttempts == {attempts[k].i : k \in {j \in DOMAIN attempts : attempts[j].outcome = "ok"}}

\* C11: every submit_order / cancel_order made on the pool is handed to one
\* connection: the index chosen is in [0, live count), the connection at that index
\* is one whose connect attempt succeeded, and no other connection is touched.
C11_RoutedToLiveConnection ==
    [][pool_calls' = pool_calls + 1 =>
          /\ "conn" \in DOMAIN routed'
          /\ routed'.idx \in 0..(Len(connections) - 1)
          /\ routed'.conn = connections[routed'.idx + 1]
          /\ routed'.conn \in LiveAttempts
          /\ \A p \in DOMAIN conn_seq :
                p # routed'.idx + 1 => conn_seq'[p] = conn_seq[p]]_vars

\* pool of size 3 whose second attempt timed out: two calls have been routed, the
\* last one to the second live connection, which is the third attempt
C11_Witness ==
    /\ PoolReady
    /\ pool_size = 3
    /\ attempts[2].outcome = "timeout"
    /\ connections = <<0, 2>>
    /\ pool_calls = 2
    /\ routed.op = "submit"
    /\ routed.idx = 1
    /\ routed.conn = 2

\* C13: once the pool is constructed its connection set never changes, whatever
\* happens: calls, write errors, events, receiver tasks ending.  (That a connection
\* whose receiver has ended is still routed to is what the witness shows.)
C13_MembershipFixed ==
    [][PoolReady => PoolReady' /\ connections' = connections]_vars

\* after a failed write on one connection, the receiver task of a connection has
\* ended and the next call is routed to that connection and succeeds
C13_Witness ==
    /\ PoolReady
    /\ Len(connections) = 2
    /\ pool_calls = 2
    /\ routed.task = "terminated"
    /\ routed.ok
    /\ last_event # -1

----------------------------------------------------------------------------
\* the numeric tag of each kind on the wire
WireTag ==
    [NewOrder |-> 1, CancelOrder |-> 2, ReplaceOrder |-> 3, OrderAck |-> 16,
     OrderReject |-> 17, OrderCancelled |-> 18, OrderReplaced |-> 19, Execution |-> 32,
     Trade |-> 48, Quote |-> 49, Heartbeat |-> 240, Logon |-> 241, Logout |-> 242]

\* C21: encoding a header and decoding the 16 bytes gives back the same version,
\* kind, reserved, length and sequence, for each of the 13 kinds and every field
\* value; the byte at offset 1 is the kind's fixed tag.
C21_HeaderRoundTrip ==
    (cOut # <<>> /\ dKind = "Header") =>
        /\ Len(cOut) = 16
        /\ cOut[2] = WireTag[cIn.header.msg_type]
        /\ dOut # NotDecoded =>
              /\ dOut.ok
              /\ dOut.version = cIn.header.version
              /\ dOut.msg_type = cIn.header.msg_type
              /\ dOut.reserved = cIn.header.reserved
              /\ dOut.length = cIn.header.length
              /\ dOut.sequence = cIn.header.sequence

\* a Logout header with every field away from its default came back from the decoder
C21_Witness ==
    /\ dKind = "Header"
    /\ cOut # <<>>
    /\ dOut # NotDecoded
    /\ dOut.ok
    /\ dOut.msg_type = "Logout"
    /\ dOut.version = 255
    /\ dOut.reserved = 65535
    /\ dOut.length = 2147483646
    /\ dOut.sequence = 2147483646

----------------------------------------------------------------------------
\* C22: ids are unique per connection, not across the pool: two submit_order
\* calls answered by the same connection never return the same id (while two
\* calls answered by different connections can, see C22_Witness).
C22_IdsUniquePerConnection ==
    \A a \in pool_ids, b \in pool_ids :
        (a.conn = b.conn /\ a.no # b.no) => a.id # b.id

\* two submit_order calls on a pool of at least two connections returned the same id
C22_Witness ==
    /\ Len(connections) >= 2
    /\ \E a \in pool_ids, b \in pool_ids :
          a.no # b.no /\ a.conn # b.conn /\ a.id = b.id

\* two submit_order calls on the same connection of such a pool returned ids 1 and 2
C22_SameConnection ==
    /\ Len(connections) >= 2
    /\ \E a \in pool_ids, b \in pool_ids :
          a.no < b.no /\ a.conn = b.conn /\ a.id = 1 /\ b.id = 2

----------------------------------------------------------------------------
\* C30: on a pool with at least two live connections, a cancel_order for an id
\* that an earlier submit_order of the pool returned is written to the
\* connection that allocated that id.
C30_CancelReachesAllocator ==
    (/\ routed.op = "cancel"
     /\ "conn" \in DOMAIN routed
     /\ routed.ok
     /\ Len(connections) >= 2
     /\ \E a \in pool_ids : a.id = routed.id)
        => \E a \in pool_ids : a.id = routed.id /\ a.conn = routed.conn

----------------------------------------------------------------------------
\* calls with a whole header on the wire
HeaderOnWire == {k \in 1..ncalls : Len(SegBytes(wire, k)) >= 16}

\* the call a frame on the wire belongs to: its operation and the id it carries
WireOp(k) == wire[CHOOSE i \in DOMAIN wire : wire[i].no = k].op
WireId(k) == wire[CHOOSE i \in DOMAIN wire : wire[i].no = k].id

\* C27: every frame the client writes has version 1, reserved 0 and sequence 0
\* in its header; the header sequence never advances, the client_order_id in the
\* body of a NewOrder does (it is the id its call was allocated).
C27_HeaderFieldsConstant ==
    /\ \A k \in HeaderOnWire :
          LET h == Field(SegBytes(wire, k), 1, 16) IN
          /\ h[1] = PROTOCOL_VERSION
          /\ Field(h, 3, 2) = <<0, 0>>
          /\ Field(h, 9, 8) = <<0, 0, 0, 0, 0, 0, 0, 0>>
          /\ h[2] = IF WireOp(k) = "submit" THEN 1 ELSE 2
    /\ \A k \in WrittenCalls :
          WireOp(k) = "submit" =>
              /\ get_be(Field(SegBytes(wire, k), 33, 8)) = WireId(k)
              /\ \E j \in DOMAIN allocs : allocs[j].no = k /\ allocs[j].id = WireId(k)

\* two NewOrder frames with ids 1 and 2 are on the wire in full
C27_Witness ==
    /\ WrittenCalls = {1, 2}
    /\ WireOp(1) = "submit" /\ WireOp(2) = "submit"
    /\ {get_be(Field(SegBytes(wire, 1), 33, 8)), get_be(Field(SegBytes(wire, 2), 33, 8))} = {1, 2}

----------------------------------------------------------------------------
\* submit_order calls that have passed next_sequence
PastNextSequence ==
    {r.no : r \in {q \in returned : q.op = "submit"}}
        \cup {call[c].no : c \in {d \in Callers : call[d] # NoCall /\ call[d].op = "submit"
                                                    /\ pc[d] # "next_sequence"}}

\* C29: the id counter goes up exactly once per submit_order call, before any
\* byte of the call is written and whether or not the write succeeds;
\* cancel_order never changes it.
C29_CounterPerSubmit ==
    /\ sequence = Len(allocs)
    /\ {allocs[j].no : j \in DOMAIN allocs} = PastNextSequence
    /\ Cardinality(PastNextSequence) = Len(allocs)
    /\ \A i \in DOMAIN wire :
          wire[i].op = "submit" => \E j \in DOMAIN allocs : allocs[j].no = wire[i].no

\* a submit_order whose write failed consumed id 1, the next one returned id 2
C29_Witness ==
    \E r, q \in returned :
          /\ r.op = "submit" /\ r.io = "write_err" /\ r.id = 1
          /\ q.op = "submit" /\ q.ok /\ q.id = 2
          /\ sequence = 2

----------------------------------------------------------------------------
\* C26: taking the id and writing the frame are separate steps: the step that
\* takes the id holds no socket lock and writes nothing, so with concurrent
\* callers the frames can reach the wire in an order other than ascending id
\* (C26_Witness).
C26_IdThenWriteNotAtomic ==
    [][sequence' # sequence =>
          /\ sequence' = sequence + 1
          /\ wire' = wire
          /\ locked' = locked
          /\ \E c \in Callers : pc[c] = "next_sequence" /\ pc'[c] = "lock"]_vars

\* two NewOrder frames are on the wire in full, the frame with id 2 before the
\* frame with id 1
C26_Witness ==
    /\ WrittenCalls = {1, 2}
    /\ \E i, j \in DOMAIN wire :
          /\ i < j
          /\ wire[i].op = "submit" /\ wire[j].op = "submit"
          /\ wire[i].last /\ wire[j].last
          /\ get_be(Field(SegBytes(wire, wire[i].no), 33, 8)) = 2
          /\ get_be(Field(SegBytes(wire, wire[j].no), 33, 8)) = 1

----------------------------------------------------------------------------
\* the header at the front of the accumulator of a read step, and whether the frame
\* it declares is in the accumulator in full
FrontHeader == MessageHeader_decode(Acc)
FrontFramed == ReadStep /\ Len(Acc) >= 16 /\ FrontHeader.ok /\ FrontHeader.length <= Len(Acc)
HandledKinds == {"OrderAck", "OrderReject", "Execution"}

\* the read step leaves the accumulator, the channel and the task as the loop
\* leaves them when it goes on from accumulator b and channel q
GoesOnFrom(b, q) ==
    LET e == ProcessBuffer(b, q, 0) IN
    /\ buf' = e.buf
    /\ queue' = e.out
    /\ (rpc' = "panicked") = (e.status = "panicked")

\* C28: no inbound byte sequence aborts the read loop, headers with a length
\* below 16 included: the task never dies in the reassembler or in a decoder
\* (it ends only on end-of-stream or a read error).
C28_ReadLoopNeverAborts == rpc # "panicked"

\* C23: for every recognized header whose declared length L is at most the bytes
\* in the accumulator, L below 16 included, the reassembler removes exactly L
\* bytes, hands bytes 16..L to the decoder of the kind (the event is sent if the
\* decoder returns one) and goes on with the bytes that follow.  (A decoder that
\* dies on the bytes it was handed is not held against this claim.)
C23_FrameOfDeclaredLength ==
    [][FrontFramed =>
          LET L == FrontHeader.length
              d == Dispatch(FrontHeader.msg_type, SubSeq(Acc, 17, L))
          IN  d.panic \/ GoesOnFrom(Drop(Acc, L), IF d.ok THEN Append(queue, d.msg) ELSE queue)]_vars

\* C24: when the body of a fully framed OrderAck, OrderReject or Execution frame
\* is not decoded, that frame alone is dropped: no event for it, the loop keeps
\* running and goes on with the frames that follow.
C24_UndecodedFrameDropped ==
    [][(/\ FrontFramed
        /\ FrontHeader.length >= 16
        /\ FrontHeader.msg_type \in HandledKinds
        /\ ~Dispatch(FrontHeader.msg_type, SubSeq(Acc, 17, FrontHeader.length)).ok)
          => GoesOnFrom(Drop(Acc, FrontHeader.length), queue)]_vars

\* C25: a fully framed frame (header and body, 16 bytes or more) of a recognized
\* kind without a handler is consumed whole, sends no event and leaves the frames
\* that follow to be processed as if it had not been there.
C25_UnhandledKindSkipped ==
    [][(/\ FrontFramed
        /\ FrontHeader.length >= 16
        /\ FrontHeader.msg_type \notin HandledKinds)
          => GoesOnFrom(Drop(Acc, FrontHeader.length), queue)]_vars

\* a Trade frame with a 32-byte body, then an OrderAck: only the OrderAck's event
\* came out and the loop is still running
C25_Witness ==
    /\ sent = <<"Trade", "Ack1">>
    /\ Emitted = <<AckEvent(1)>>
    /\ inflight = <<>>
    /\ buf = <<>>
    /\ rpc = "lock"

====
